---- MODULE Spec2Model ----
(***************************************************************************)
(* SignEase client: the progression engine (static/js/gamification.js),    *)
(* the analytics engine (analytics script) and the detection poller         *)
(* (static/js/modes.js), modelled as one state machine over the browser's   *)
(* localStorage, the page's in-memory objects and the wall clock.           *)
(*                                                                          *)
(* Time: the clock `now` counts ticks of half a calendar day, so the        *)
(* 86400000 ms of gamification.js are MsPerDay = 2 ticks; every calendar    *)
(* day has the same length (a time zone without a daylight saving           *)
(* transition).                                                             *)
(* Confidences are carried in thousandths (0.795 is 795).                   *)
(***************************************************************************)
EXTENDS Integers, Sequences, FiniteSets

VARIABLES
    now,               \* Date.now(), in clock ticks
    page,              \* "unloaded" | "loaded": is the document alive
    env,               \* what the loaded page offers (DOM elements, scripts)
    game,              \* localStorage['signease_game']
    analytics,         \* localStorage['signease_analytics']
    learningMode,      \* localStorage['learningMode']
    currentMode,       \* ModeSwitcher.currentMode
    detectionInterval, \* ModeSwitcher.detectionInterval (0 is null)
    activeTimers,      \* handles of the poll timers the browser still fires
    transcriptSigns,   \* ModeSwitcher.transcriptSigns (the dedup set)
    transcriptList,    \* children of #transcriptList, first child first
    display,           \* #detectionLabel: class 'active', .sign-name, .confidence
    inflight,          \* queries to /latest whose response has not arrived
    saveCalls,         \* POSTs to /save_detection issued so far
    appended,          \* transcript entries inserted so far
    commits,           \* times the commit branch was entered so far
    savesPending,      \* POSTs to /save_detection whose promise has not settled
    syncTimer,         \* is the 30000 ms interval of Gamification.init set
    flushTimer,        \* is the 60000 ms interval of Analytics.init set
    pushCount,         \* POSTs to /sync_progress issued so far
    lastPush,          \* body of the latest POST to /sync_progress
    pushesPending,     \* POSTs to /sync_progress whose promise has not settled
    sessionTime        \* time spent so far with the page loaded, in units of the clock

storeVars == <<game, analytics, learningMode>>
pollerVars == <<currentMode, detectionInterval, activeTimers, transcriptSigns>>
domVars == <<transcriptList, display>>
logVars == <<saveCalls, appended, commits, savesPending>>
timerVars == <<syncTimer, flushTimer>>
syncVars == <<pushCount, lastPush, pushesPending>>
vars == <<now, page, env, game, analytics, learningMode, currentMode,
          detectionInterval, activeTimers, transcriptSigns, transcriptList,
          display, inflight, saveCalls, appended, commits, savesPending,
          syncTimer, flushTimer, pushCount, lastPush, pushesPending,
          sessionTime>>

----------------------------------------------------------------------------
(* Bounds of the exploration *)

Epoch == 2
MaxDays == 2
MaxXP == 270
MaxCommits == 2
MaxInflight == 2
MaxStreak0 == 2
MaxSigns == 5
MaxTotal == 10
MaxPushes == 2

(* Program constants *)

XpPerLevel == 100
DetectionXP == 10
DisplayThreshold == 750
CommitThreshold == 80
TranscriptCap == 20
OldestOffset == 6

----------------------------------------------------------------------------
(* Values *)

Modes == {"sign", "speech"}
NoMode == "none"

Labels == {"a", "B"}
NoSign == ""
Confs == {740, 760, 795, 900}
(* The JSON of /latest: a label with a confidence, no label, or no `conf` *)
Samples == [sign : Labels, hasConf : {TRUE}, conf : Confs]
           \cup [sign : {NoSign}, hasConf : {TRUE}, conf : {900}]
           \cup [sign : Labels \cup {NoSign}, hasConf : {FALSE}, conf : {0}]

Amounts == {10, 250}

Absent == [kind |-> "absent"]
Corrupt == [kind |-> "corrupt"]

Placeholder == [p |-> TRUE]

NoPush == [xp |-> 0, level |-> 0, streak |-> 0]

Template == [active |-> FALSE, signName |-> "", confidence |-> 0]
NoHand == [active |-> FALSE, signName |-> "No hand detected", confidence |-> 0]

FullPage == [detectionLabel |-> TRUE, transcriptList |-> TRUE,
             gamification |-> TRUE, analytics |-> TRUE]
Pages == [detectionLabel : BOOLEAN, transcriptList : BOOLEAN,
          gamification : BOOLEAN, analytics : BOOLEAN]

Days == 0 .. (Epoch + MaxDays)

----------------------------------------------------------------------------
(* Date *)

MsPerDay == 2

toDateString(t) == t \div MsPerDay

(* String.prototype.toUpperCase on the labels *)
toUpperCase(s) == IF s = "a" THEN "A" ELSE s

(* Math.round(conf * 100) for a confidence given in thousandths *)
MathRound100(c) == (c + 5) \div 10

(* Math.round(n / d) for n >= 0 and d > 0: halves go up *)
MathRound(n, d) == (2 * n + d) \div (2 * d)

(* One unit of the clock in milliseconds: half a day *)
MsPerUnit == 43200000

----------------------------------------------------------------------------
(* Gamification *)

GamificationGetData(item, t) ==
    IF item.kind = "json" THEN item
    ELSE [kind |-> "json", xp |-> 0, level |-> 1, streak |-> 0,
          lastVisit |-> toDateString(t)]

getLevel(xp) == (xp \div XpPerLevel) + 1

(* addXP raising the level by one step only *)
addXPOneLevel(item, amount, t) ==
    LET data == GamificationGetData(item, t)
        xp == data.xp + amount
    IN  [data EXCEPT !.xp = xp,
                     !.level = IF getLevel(xp) > data.level THEN data.level + 1
                               ELSE data.level]

(* addXP that also marks the day of the call as the last visit *)
addXPMarkingVisit(item, amount, t) ==
    LET data == GamificationGetData(item, t)
        xp == data.xp + amount
        newLevel == getLevel(xp)
    IN  [data EXCEPT !.xp = xp,
                     !.level = IF newLevel > data.level THEN newLevel ELSE data.level,
                     !.lastVisit = toDateString(t)]

(* addXP adding to the default record instead of the stored one *)
addXPLost(item, amount, t) ==
    LET data == GamificationGetData(Absent, t)
        xp == data.xp + amount
        newLevel == getLevel(xp)
    IN  [data EXCEPT !.xp = xp,
                     !.level = IF newLevel > data.level THEN newLevel ELSE data.level]

addXP(item, amount, t) ==
    LET data == GamificationGetData(item, t)
        xp == data.xp + amount
        newLevel == getLevel(xp)
    IN  [data EXCEPT !.xp = xp,
                     !.level = IF newLevel > data.level THEN newLevel ELSE data.level]

(* updateStreak taking the current day for the day before *)
updateStreakSameDay(item, t) ==
    LET data == GamificationGetData(item, t)
        today == toDateString(t)
        streak == IF data.lastVisit = today THEN data.streak + 1 ELSE 1
    IN  [data EXCEPT !.streak = streak, !.lastVisit = today]

(* updateStreak comparing against a day that lies two days back *)
updateStreakTwoDays(item, t) ==
    LET data == GamificationGetData(item, t)
        today == toDateString(t)
        yesterday == toDateString(t - 2 * MsPerDay)
        streak == IF data.lastVisit = yesterday THEN data.streak + 1
                  ELSE IF data.lastVisit # today THEN 1
                  ELSE data.streak
    IN  [data EXCEPT !.streak = streak, !.lastVisit = today]

(* getProgress measuring against the whole of the next threshold *)
getProgressOfTotal(xp, level) ==
    LET nextLevelXP == level * XpPerLevel
        progress == (xp * 100) \div nextLevelXP
        atLeast0 == IF progress > 0 THEN progress ELSE 0
    IN  IF atLeast0 < 100 THEN atLeast0 ELSE 100

getProgress(xp, level) ==
    LET currentLevelXP == (level - 1) * XpPerLevel
        nextLevelXP == level * XpPerLevel
        progress == ((xp - currentLevelXP) * 100) \div (nextLevelXP - currentLevelXP)
        atLeast0 == IF progress > 0 THEN progress ELSE 0
    IN  IF atLeast0 < 100 THEN atLeast0 ELSE 100

(* syncToServer sending the default record instead of the stored one *)
syncBodyDefault(item, t) ==
    LET data == GamificationGetData(Absent, t)
    IN  [xp |-> data.xp, level |-> data.level, streak |-> data.streak]

(* The body of the POST of syncToServer *)
syncBody(item, t) ==
    LET data == GamificationGetData(item, t)
    IN  [xp |-> data.xp, level |-> data.level, streak |-> data.streak]

updateStreak(item, t) ==
    LET data == GamificationGetData(item, t)
        today == toDateString(t)
        yesterday == toDateString(t - MsPerDay)
        streak == IF data.lastVisit = yesterday THEN data.streak + 1
                  ELSE IF data.lastVisit # today THEN 1
                  ELSE data.streak
    IN  [data EXCEPT !.streak = streak, !.lastVisit = today]

----------------------------------------------------------------------------
(* Analytics *)

AnalyticsGetData(item, t) ==
    IF item.kind = "json" THEN item
    ELSE [kind |-> "json", totalSigns |-> 0, correctSigns |-> 0,
          practiceTime |-> 0, dailyProgress |-> [d \in Days |-> 0],
          sessionStart |-> t]

(* trackSign starting the count of the day afresh *)
trackSignResetDay(item, isCorrect, t) ==
    LET data == AnalyticsGetData(item, t)
        today == toDateString(t)
    IN  [data EXCEPT !.totalSigns = @ + 1,
                     !.correctSigns = IF isCorrect THEN @ + 1 ELSE @,
                     !.dailyProgress[today] = 1]

(* trackSign counting every sign as a correct one *)
trackSignAlwaysCorrect(item, isCorrect, t) ==
    LET data == AnalyticsGetData(item, t)
        today == toDateString(t)
    IN  [data EXCEPT !.totalSigns = @ + 1,
                     !.correctSigns = @ + 1,
                     !.dailyProgress[today] = @ + 1]

trackSign(item, isCorrect, t) ==
    LET data == AnalyticsGetData(item, t)
        today == toDateString(t)
    IN  [data EXCEPT !.totalSigns = @ + 1,
                     !.correctSigns = IF isCorrect THEN @ + 1 ELSE @,
                     !.dailyProgress[today] = @ + 1]

updatePracticeTime(item, t) ==
    LET data == AnalyticsGetData(item, t)
        elapsed == ((t - data.sessionStart) * MsPerUnit) \div 1000
    IN  [data EXCEPT !.practiceTime = @ + elapsed, !.sessionStart = t]

(* getAccuracy cutting the fraction off instead of rounding *)
getAccuracyFloor(item, t) ==
    LET data == AnalyticsGetData(item, t)
    IN  IF data.totalSigns = 0 THEN 0
        ELSE (data.correctSigns * 100) \div data.totalSigns

getAccuracy(item, t) ==
    LET data == AnalyticsGetData(item, t)
    IN  IF data.totalSigns = 0 THEN 0
        ELSE MathRound(data.correctSigns * 100, data.totalSigns)

(* data.dailyProgress[dateStr] || 0 *)
CountOn(dailyProgress, d) ==
    IF d \in DOMAIN dailyProgress THEN dailyProgress[d] ELSE 0

(* getLast7Days pushing the newest day first *)
getLast7DaysNewestFirst(item, t) ==
    LET data == AnalyticsGetData(item, t)
    IN  [k \in 1 .. (OldestOffset + 1) |->
           CountOn(data.dailyProgress, toDateString(t - (k - 1) * MsPerDay))]

(* The days array of getLast7Days: i runs from OldestOffset down to 0, and the
   k-th push is the one made with i = OldestOffset + 1 - k *)
getLast7Days(item, t) ==
    LET data == AnalyticsGetData(item, t)
    IN  [k \in 1 .. (OldestOffset + 1) |->
           CountOn(data.dailyProgress,
                   toDateString(t - (OldestOffset + 1 - k) * MsPerDay))]

----------------------------------------------------------------------------
(* ModeSwitcher *)

(* addToTranscript removing the first child, not the last, above the cap *)
addToTranscriptEvictNewest(children, sign, conf) ==
    LET entry == [sign |-> toUpperCase(sign), confidence |-> conf]
        kept == IF \E i \in 1 .. Len(children) : children[i] = Placeholder
                THEN << >> ELSE children
        grown == <<entry>> \o kept
    IN  IF Len(grown) > TranscriptCap THEN SubSeq(grown, 2, Len(grown))
        ELSE grown

addToTranscript(children, sign, conf) ==
    LET entry == [sign |-> toUpperCase(sign), confidence |-> conf]
        kept == IF \E i \in 1 .. Len(children) : children[i] = Placeholder
                THEN << >> ELSE children
        grown == <<entry>> \o kept
    IN  IF Len(grown) > TranscriptCap THEN SubSeq(grown, 1, Len(grown) - 1)
        ELSE grown

NewTimer == CHOOSE h \in 1 .. (Cardinality(activeTimers) + 1) : h \notin activeTimers

(* startSignDetection without its guard on detectionInterval *)
startSignDetectionUnguarded ==
    /\ transcriptSigns' = {}
    /\ detectionInterval' = NewTimer
    /\ activeTimers' = activeTimers \cup {NewTimer}

startSignDetection ==
    IF detectionInterval # 0
    THEN UNCHANGED <<detectionInterval, activeTimers, transcriptSigns>>
    ELSE /\ transcriptSigns' = {}
         /\ detectionInterval' = NewTimer
         /\ activeTimers' = activeTimers \cup {NewTimer}

stopSignDetection ==
    /\ activeTimers' = activeTimers \ {detectionInterval}
    /\ detectionInterval' = 0
    /\ UNCHANGED transcriptSigns

(* The commit branch: addToTranscript, onCorrectDetection, transcriptSigns.add.
   An exception of Gamification.addXP or Analytics.trackSign (JSON.parse of a
   corrupted record) leaves the handler through its catch, skipping the rest. *)
addXPThrows == env.gamification /\ game.kind = "corrupt"
trackSignThrows == env.analytics /\ analytics.kind = "corrupt"

onCorrectDetection ==
    /\ game' = IF env.gamification /\ ~addXPThrows
               THEN addXP(game, DetectionXP, now) ELSE game
    /\ analytics' = IF env.analytics /\ ~addXPThrows /\ ~trackSignThrows
                    THEN trackSign(analytics, TRUE, now) ELSE analytics

commitDetection(sign, conf) ==
    /\ commits' = commits + 1
    /\ IF env.transcriptList
       THEN /\ transcriptList' = addToTranscript(transcriptList, sign, conf)
            /\ appended' = appended + 1
            /\ saveCalls' = saveCalls + 1
            /\ savesPending' = savesPending + 1
       ELSE UNCHANGED <<transcriptList, appended, saveCalls, savesPending>>
    /\ onCorrectDetection
    /\ transcriptSigns' = IF addXPThrows \/ trackSignThrows THEN transcriptSigns
                          ELSE transcriptSigns \cup {sign}

(* The display test without the check of data.sign *)
ShownAnySign(data) == data.hasConf /\ data.conf >= DisplayThreshold

Shown(data) == data.sign # NoSign /\ data.hasConf /\ data.conf >= DisplayThreshold

(* The commit test without the lookup in transcriptSigns *)
AcceptedNoDedup(data) ==
    /\ Shown(data)
    /\ MathRound100(data.conf) >= CommitThreshold

(* The commit test asking for more than 90 percent *)
AcceptedAbove90(data) ==
    /\ Shown(data)
    /\ MathRound100(data.conf) > 90
    /\ data.sign \notin transcriptSigns

Accepted(data) ==
    /\ Shown(data)
    /\ MathRound100(data.conf) >= CommitThreshold
    /\ data.sign \notin transcriptSigns

(* The body of the interval callback once `await response.json()` has
   delivered `data` *)
onLatest(data) ==
    IF ~env.detectionLabel
    THEN UNCHANGED <<game, analytics, transcriptSigns, domVars, logVars>>
    ELSE IF Shown(data)
    THEN /\ display' = [active |-> TRUE, signName |-> data.sign,
                        confidence |-> MathRound100(data.conf)]
         /\ IF Accepted(data)
            THEN commitDetection(data.sign, MathRound100(data.conf))
            ELSE UNCHANGED <<game, analytics, transcriptSigns, transcriptList, logVars>>
    ELSE /\ display' = NoHand
         /\ UNCHANGED <<game, analytics, transcriptSigns, transcriptList, logVars>>

----------------------------------------------------------------------------
(* States the stores can hold when a session begins *)

PersistedXP == {0, 90}

PersistedGames ==
    {Absent} \cup
    {[kind |-> "json", xp |-> x, level |-> (x \div XpPerLevel) + 1, streak |-> s,
      lastVisit |-> d] : x \in PersistedXP, s \in 0 .. MaxStreak0,
                         d \in (Epoch - 2) .. Epoch}

Templates == {<< >>, <<Placeholder>>}

InitCommon ==
    /\ page = "unloaded"
    /\ currentMode = "sign"
    /\ detectionInterval = 0
    /\ activeTimers = {}
    /\ transcriptSigns = {}
    /\ transcriptList = << >>
    /\ display = Template
    /\ inflight = 0
    /\ saveCalls = 0
    /\ appended = 0
    /\ commits = 0
    /\ savesPending = 0
    /\ syncTimer = FALSE
    /\ flushTimer = FALSE
    /\ pushCount = 0
    /\ lastPush = NoPush
    /\ pushesPending = 0
    /\ sessionTime = 0

(* The last instant of the exploration: the first tick of its last day *)
LastNow == (Epoch + MaxDays - 1) * MsPerDay

(* A fresh browser profile (nothing persisted) opening the full page, one tick
   before midnight *)
Init ==
    /\ InitCommon
    /\ learningMode = NoMode
    /\ now = LastNow - 1
    /\ env = FullPage
    /\ game = Absent
    /\ analytics = Absent

(* A session of a page that may lack the elements and scripts the poller
   looks up, over stores that may hold a record that does not parse *)
InitDegraded ==
    /\ InitCommon
    /\ learningMode = NoMode
    /\ now = LastNow - 1
    /\ env \in Pages
    /\ game \in {Absent, Corrupt}
    /\ analytics \in {Absent, Corrupt}

(* The progression engine over several days, from any persisted record *)
InitEngine ==
    /\ InitCommon
    /\ learningMode = NoMode
    /\ now = Epoch * MsPerDay
    /\ env = FullPage
    /\ game \in PersistedGames
    /\ analytics = Absent

----------------------------------------------------------------------------
(* Actions *)

(* ModeSwitcher.switchMode *)
switchMode(mode) ==
    /\ currentMode' = mode
    /\ learningMode' = mode
    /\ IF mode = "sign" THEN startSignDetection ELSE stopSignDetection

(* DOMContentLoaded: Gamification.init, Analytics.init, ModeSwitcher.init *)
PageLoad ==
    /\ page = "unloaded"
    /\ page' = "loaded"
    /\ game' = IF env.gamification /\ game.kind # "corrupt"
               THEN updateStreak(game, now) ELSE game
    /\ switchMode(IF learningMode = NoMode THEN "sign" ELSE learningMode)
    /\ \E t \in Templates : transcriptList' = t
    /\ display' = Template
    /\ syncTimer' = (env.gamification /\ game.kind # "corrupt")
    /\ flushTimer' = (env.analytics /\ analytics.kind # "corrupt")
    /\ UNCHANGED <<now, sessionTime, env, analytics, inflight, logVars, syncVars>>

(* Navigation away: the document, its timers and its callbacks are gone *)
PageUnload ==
    /\ page = "loaded"
    /\ page' = "unloaded"
    /\ currentMode' = "sign"
    /\ detectionInterval' = 0
    /\ activeTimers' = {}
    /\ transcriptSigns' = {}
    /\ transcriptList' = << >>
    /\ display' = Template
    /\ inflight' = 0
    /\ savesPending' = 0
    /\ syncTimer' = FALSE
    /\ flushTimer' = FALSE
    /\ pushesPending' = 0
    /\ UNCHANGED <<now, sessionTime, env, storeVars, saveCalls, appended, commits, pushCount,
                   lastPush>>

(* A click on a .mode-btn *)
SwitchMode ==
    /\ page = "loaded"
    /\ \E mode \in Modes : switchMode(mode)
    /\ UNCHANGED <<now, sessionTime, page, env, game, analytics, domVars, inflight, logVars,
                   timerVars, syncVars>>

(* A timer that waits for the reply of the query before it issues the next *)
TickSerialized ==
    /\ page = "loaded"
    /\ activeTimers # {}
    /\ inflight = 0
    /\ inflight' = inflight + 1
    /\ UNCHANGED <<now, sessionTime, page, env, storeVars, pollerVars, domVars,
                   logVars, timerVars, syncVars>>

(* The interval timer fires: fetch('/latest') is issued *)
Tick ==
    /\ page = "loaded"
    /\ activeTimers # {}
    /\ inflight < MaxInflight
    /\ inflight' = inflight + 1
    /\ UNCHANGED <<now, sessionTime, page, env, storeVars, pollerVars, domVars, logVars,
                   timerVars, syncVars>>

(* A query resolves with `data`; the exploration stops committing at MaxCommits *)
Resolve(data) ==
    /\ Accepted(data) /\ env.detectionLabel =>
          /\ commits < MaxCommits
          /\ game.kind = "json" => game.xp + DetectionXP <= MaxXP
    /\ onLatest(data)

(* A query's promise resolves with `data` and the rest of the callback runs,
   whether or not the timer that issued the query is still set *)
RespondWith(data) ==
    /\ page = "loaded"
    /\ inflight > 0
    /\ inflight' = inflight - 1
    /\ Resolve(data)
    /\ UNCHANGED <<now, sessionTime, page, env, learningMode, currentMode, detectionInterval,
                   activeTimers, timerVars, syncVars>>

(* A rejection handled like a reply without a sign *)
RespondRejectedAsNoHand ==
    RespondWith([sign |-> NoSign, hasConf |-> FALSE, conf |-> 0])

(* fetch or response.json() rejects: the catch logs the error *)
RespondRejected ==
    /\ page = "loaded"
    /\ inflight > 0
    /\ inflight' = inflight - 1
    /\ UNCHANGED <<now, sessionTime, page, env, storeVars, pollerVars, domVars, logVars,
                   timerVars, syncVars>>

Respond ==
    \/ \E data \in Samples : RespondWith(data)
    \/ RespondRejected

(* clearTranscript resetting the list only *)
clearTranscriptListOnly ==
    /\ page = "loaded"
    /\ transcriptList' = IF env.transcriptList THEN <<Placeholder>> ELSE transcriptList
    /\ UNCHANGED <<now, sessionTime, page, env, storeVars, pollerVars, display, inflight, logVars,
                   timerVars, syncVars>>

(* The global clearTranscript() *)
clearTranscript ==
    /\ page = "loaded"
    /\ transcriptList' = IF env.transcriptList THEN <<Placeholder>> ELSE transcriptList
    /\ transcriptSigns' = {}
    /\ UNCHANGED <<now, sessionTime, page, env, storeVars, currentMode, detectionInterval,
                   activeTimers, display, inflight, logVars, timerVars, syncVars>>

(* addXP that also removes the analytics record from localStorage *)
AddXPOfClearingStore(amount) ==
    /\ page = "loaded"
    /\ env.gamification
    /\ GamificationGetData(game, now).xp + amount <= MaxXP
    /\ game' = IF game.kind = "corrupt" THEN game ELSE addXP(game, amount, now)
    /\ analytics' = Absent
    /\ UNCHANGED <<now, sessionTime, page, env, learningMode, pollerVars, domVars,
                   inflight, logVars, timerVars, syncVars>>

(* window.Gamification.addXP(amount) called by another script *)
AddXPOf(amount) ==
    /\ page = "loaded"
    /\ env.gamification
    /\ GamificationGetData(game, now).xp + amount <= MaxXP
    /\ game' = IF game.kind = "corrupt" THEN game ELSE addXP(game, amount, now)
    /\ UNCHANGED <<now, sessionTime, page, env, analytics, learningMode, pollerVars, domVars,
                   inflight, logVars, timerVars, syncVars>>

AddXP == \E amount \in Amounts : AddXPOf(amount)

(* window.Gamification.updateStreak() called by another script *)
UpdateStreak ==
    /\ page = "loaded"
    /\ env.gamification
    /\ game' = IF game.kind = "corrupt" THEN game ELSE updateStreak(game, now)
    /\ UNCHANGED <<now, sessionTime, page, env, analytics, learningMode, pollerVars, domVars,
                   inflight, logVars, timerVars, syncVars>>

(* window.Analytics.trackSign(isCorrect) called by another script, while the
   record holds fewer than max signs; on a corrupted record getData throws *)
TrackSignWithin(isCorrect, max) ==
    /\ page = "loaded"
    /\ env.analytics
    /\ AnalyticsGetData(analytics, now).totalSigns < max
    /\ analytics' = IF analytics.kind = "corrupt" THEN analytics
                    ELSE trackSign(analytics, isCorrect, now)
    /\ UNCHANGED <<now, sessionTime, page, env, game, learningMode, pollerVars, domVars,
                   inflight, logVars, timerVars, syncVars>>

TrackSign == \E isCorrect \in BOOLEAN : TrackSignWithin(isCorrect, MaxSigns)

TrackSignLong == \E isCorrect \in BOOLEAN : TrackSignWithin(isCorrect, MaxTotal)

(* The interval of Analytics.init fires *)
UpdatePracticeTime ==
    /\ flushTimer
    /\ analytics' = IF analytics.kind = "corrupt" THEN analytics
                    ELSE updatePracticeTime(analytics, now)
    /\ UNCHANGED <<now, sessionTime, page, env, game, learningMode, pollerVars, domVars,
                   inflight, logVars, timerVars, syncVars>>

(* The interval of Gamification.init fires: syncToServer up to its await *)
SyncTick ==
    /\ syncTimer
    /\ pushCount < MaxPushes
    /\ IF game.kind = "corrupt"
       THEN UNCHANGED syncVars
       ELSE /\ pushCount' = pushCount + 1
            /\ lastPush' = syncBody(game, now)
            /\ pushesPending' = pushesPending + 1
    /\ UNCHANGED <<now, sessionTime, page, env, storeVars, pollerVars, domVars, inflight,
                   logVars, timerVars>>

(* The promise of a fetch of /sync_progress settles: nothing follows the await
   when it is fulfilled, the catch logs when it is rejected *)
SyncSettled ==
    /\ pushesPending > 0
    /\ pushesPending' = pushesPending - 1
    /\ UNCHANGED <<now, sessionTime, page, env, storeVars, pollerVars, domVars, inflight,
                   logVars, timerVars, pushCount, lastPush>>

(* The promise chain of a saveToDatabase settles: console.log of the reply, or
   console.error in its catch *)
SaveSettled ==
    /\ savesPending > 0
    /\ savesPending' = savesPending - 1
    /\ UNCHANGED <<now, sessionTime, page, env, storeVars, pollerVars, domVars, inflight,
                   saveCalls, appended, commits, timerVars, syncVars>>

(* Time passes *)
AdvanceClock ==
    /\ now + 1 <= LastNow
    /\ now' = now + 1
    /\ UNCHANGED <<sessionTime, page, env, storeVars, pollerVars, domVars,
                   inflight, logVars, timerVars, syncVars>>

(* Time passes, and the time spent with the page loaded is kept *)
PassTime ==
    /\ now + 1 <= LastNow
    /\ now' = now + 1
    /\ sessionTime' = IF page = "loaded" THEN sessionTime + 1 ELSE sessionTime
    /\ UNCHANGED <<page, env, storeVars, pollerVars, domVars, inflight, logVars,
                   timerVars, syncVars>>

Next ==
    \/ PageLoad
    \/ PageUnload
    \/ SwitchMode
    \/ Tick
    \/ Respond
    \/ clearTranscript
    \/ AdvanceClock

Spec == Init /\ [][Next]_vars

SpecDegraded == InitDegraded /\ [][Next]_vars

(* The page with the settling of its POSTs to /save_detection made visible *)
NextNetwork ==
    \/ Next
    \/ SaveSettled

SpecNetwork == Init /\ [][NextNetwork]_vars

NextEngine ==
    \/ PageLoad
    \/ PageUnload
    \/ AddXP
    \/ UpdateStreak
    \/ AdvanceClock

SpecEngine == InitEngine /\ [][NextEngine]_vars

(* The progression engine with its synchronisation timer *)
NextSync ==
    \/ NextEngine
    \/ SyncTick
    \/ SyncSettled

SpecSync == InitEngine /\ [][NextSync]_vars

(* The transcript after n commits of a session that alternated between the
   two labels, with a confidence of 0.9 each *)
RECURSIVE FilledTranscript(_)
FilledTranscript(n) ==
    IF n = 0 THEN << >>
    ELSE addToTranscript(FilledTranscript(n - 1),
                         IF n % 2 = 1 THEN "a" ELSE "B", MathRound100(900))

NearCap == {TranscriptCap - 1, TranscriptCap}

(* A session on the full page that has committed n signs, n near the cap, and
   has just switched back to sign mode: the timer is set, transcriptSigns is
   empty, the stores hold what the n commits wrote *)
InitTranscript ==
    /\ now = LastNow
    /\ page = "loaded"
    /\ env = FullPage
    /\ learningMode = "sign"
    /\ currentMode = "sign"
    /\ detectionInterval = 1
    /\ activeTimers = {1}
    /\ transcriptSigns = {}
    /\ display = Template
    /\ inflight = 0
    /\ saveCalls = 0
    /\ appended = 0
    /\ commits = 0
    /\ savesPending = 0
    /\ syncTimer = TRUE
    /\ flushTimer = TRUE
    /\ pushCount = 0
    /\ lastPush = NoPush
    /\ pushesPending = 0
    /\ sessionTime = 0
    /\ \E n \in NearCap :
         /\ transcriptList = FilledTranscript(n)
         /\ game = [updateStreak(Absent, now) EXCEPT
                      !.xp = n * DetectionXP, !.level = getLevel(n * DetectionXP)]
         /\ analytics = [AnalyticsGetData(Absent, now) EXCEPT
                           !.totalSigns = n, !.correctSigns = n,
                           !.dailyProgress[toDateString(now)] = n]

NextTranscript ==
    \/ SwitchMode
    \/ Tick
    \/ Respond
    \/ clearTranscript

SpecTranscript == InitTranscript /\ [][NextTranscript]_vars

(* A profile that came back the day after it had earned all but the last two
   detections' worth of the experience explored, opening the full page *)
EarnedXP == MaxXP - 2 * DetectionXP

InitStore ==
    /\ InitCommon
    /\ learningMode = NoMode
    /\ now = LastNow
    /\ env = FullPage
    /\ game = [kind |-> "json", xp |-> EarnedXP, level |-> getLevel(EarnedXP),
               streak |-> 1, lastVisit |-> toDateString(LastNow) - 1]
    /\ analytics = Absent

(* Both engines called directly and by the poll, flush and sync timers *)
NextStore ==
    \/ PageLoad
    \/ Tick
    \/ Respond
    \/ AddXP
    \/ UpdateStreak
    \/ SyncTick
    \/ SyncSettled
    \/ TrackSign
    \/ UpdatePracticeTime

SpecStore == InitStore /\ [][NextStore]_vars

(* The page kept in sign mode in front of a detector that reports the same
   label at 0.9 whenever a query succeeds *)
Steady == [sign |-> "a", hasConf |-> TRUE, conf |-> 900]

RespondSteady == RespondWith(Steady)

(* The other replies of that detector: the same label at another confidence,
   no label, or no confidence *)
OtherSamples == {data \in Samples : data.sign \in {Steady.sign, NoSign}} \ {Steady}

RespondOther == \E data \in OtherSamples : RespondWith(data)

NextLive ==
    \/ PageLoad
    \/ Tick
    \/ RespondSteady
    \/ RespondOther
    \/ RespondRejected
    \/ clearTranscript
    \/ AdvanceClock

(* DOMContentLoaded is delivered, the interval keeps firing, and a query
   succeeds again and again *)
SpecLive ==
    /\ Init
    /\ [][NextLive]_vars
    /\ WF_vars(PageLoad)
    /\ WF_vars(Tick)
    /\ SF_vars(RespondSteady)

(* The analytics engine on a fresh profile *)
InitAnalytics ==
    /\ InitCommon
    /\ learningMode = NoMode
    /\ now = Epoch * MsPerDay
    /\ env = FullPage
    /\ game = Absent
    /\ analytics = Absent

NextAnalytics ==
    \/ PageLoad
    \/ PageUnload
    \/ TrackSign
    \/ UpdatePracticeTime
    \/ PassTime

SpecAnalytics == InitAnalytics /\ [][NextAnalytics]_vars

(* The analytics engine during the first session of a fresh profile *)
NextSession ==
    \/ PageLoad
    \/ TrackSign
    \/ UpdatePracticeTime
    \/ PassTime

SpecSession == InitAnalytics /\ [][NextSession]_vars

NextAccuracy ==
    \/ PageLoad
    \/ TrackSignLong

SpecAccuracy == InitAnalytics /\ [][NextAccuracy]_vars

----------------------------------------------------------------------------
(* Properties of the progression engine (SpecEngine) *)

Today == now \div MsPerDay

(* A step that runs Gamification.updateStreak *)
StreakStep == UpdateStreak \/ PageLoad

(* C1: in every reachable state the stored level is floor(xp / 100) + 1, and
   addXP(250) on an absent record stores xp = 250, level = 3 *)
C1_LevelFollowsXP ==
    /\ game.kind = "json" =>
          /\ (game.level - 1) * 100 <= game.xp
          /\ game.xp < game.level * 100
    /\ LET first == addXP(Absent, 250, now)
       IN  first.xp = 250 /\ first.level = 3

C1_Witness == game.kind = "json" /\ game.xp = 250 /\ game.level = 3

(* C8: with a persisted lastVisit = D and streak = s, updateStreak on day D
   keeps s, on day D + 1 stores s + 1, on day D + 2 or later stores 1 *)
C8_StreakByGap ==
    [][(StreakStep /\ game.kind = "json") =>
          /\ Today = game.lastVisit => game'.streak = game.streak
          /\ Today = game.lastVisit + 1 => game'.streak = game.streak + 1
          /\ Today >= game.lastVisit + 2 => game'.streak = 1]_vars

C8_Witness ==
    /\ page = "loaded"
    /\ game.kind = "json"
    /\ game.lastVisit = Today
    /\ game.streak = MaxStreak0 + 1

(* C9 (as claimed): the first updateStreak of a first-ever run, over an absent
   record, leaves the persisted streak at 1 *)
C9_FirstRunStreakIsOne ==
    [][(StreakStep /\ game = Absent) => game'.streak = 1]_vars

(* C10: updateStreak always stores lastVisit = today, and a call on a record
   whose lastVisit is already today (a second call on the date) changes nothing *)
C10_StreakIdempotent ==
    [][StreakStep =>
          /\ game'.lastVisit = Today
          /\ (game.kind = "json" /\ game.lastVisit = Today) => game' = game
          /\ updateStreak(game', now) = game']_vars

C10_Witness ==
    /\ page = "loaded"
    /\ game.kind = "json"
    /\ game.lastVisit = Today
    /\ game.streak >= 1
    /\ Today > Epoch

----------------------------------------------------------------------------
(* Properties of the detection poller (Spec, SpecDegraded) *)

XP == IF game.kind = "json" THEN game.xp ELSE 0
TotalSigns == IF analytics.kind = "json" THEN analytics.totalSigns ELSE 0
CorrectSigns == IF analytics.kind = "json" THEN analytics.correctSigns ELSE 0
Entries(children) == Cardinality({i \in 1 .. Len(children) : children[i] # Placeholder})

(* C2: a response carrying a label at 0.9 commits it exactly once (one entry,
   one addXP(10)) when the label is not in transcriptSigns and commits nothing
   when it is; the label is in the set afterwards, ticks and responses never
   remove a label, and clearTranscript empties the set *)
C2_DedupUntilClear ==
    [][/\ \A data \in Samples :
            (data.sign \in Labels /\ data.hasConf /\ data.conf = 900
                                   /\ RespondWith(data)) =>
               /\ data.sign \in transcriptSigns'
               /\ IF data.sign \in transcriptSigns
                  THEN /\ appended' = appended
                       /\ transcriptList' = transcriptList
                       /\ XP' = XP
                  ELSE /\ appended' = appended + 1
                       /\ Entries(transcriptList') = Entries(transcriptList) + 1
                       /\ XP' = XP + 10
       /\ transcriptSigns \subseteq transcriptSigns' \/ ~(Tick \/ Respond)
       /\ clearTranscript => transcriptSigns' = {}]_vars

C2_Witness ==
    /\ detectionInterval # 0
    /\ commits = 2
    /\ XP = 20
    /\ transcriptSigns = {"a"}
    /\ transcriptList = <<[sign |-> "A", confidence |-> 90]>>
    /\ display = [active |-> TRUE, signName |-> "a", confidence |-> 90]

(* C3 (as claimed): a response whose confidence is below 0.80, or whose label is
   in transcriptSigns, changes neither the transcript, the experience nor the
   analytics counters; a first-seen label at 0.80 or more is committed once *)
C3_CommitOnlyFrom080 ==
    [][\A data \in Samples :
          RespondWith(data) =>
             IF ~data.hasConf \/ data.conf < 800 \/ data.sign \in transcriptSigns
             THEN UNCHANGED <<transcriptList, game, analytics, appended, saveCalls>>
             ELSE data.sign \in Labels =>
                     appended' = appended + 1 /\ XP' = XP + 10]_vars

(* C4: a response shows its label iff it has a label and a confidence of at
   least 0.75; otherwise the display is the no-detection state and the
   transcript, transcriptSigns and both stored records are unchanged *)
C4_DisplayThreshold ==
    [][\A data \in Samples :
          RespondWith(data) =>
             IF data.sign # NoSign /\ data.hasConf /\ data.conf >= 750
             THEN display'.active /\ display'.signName = data.sign
             ELSE /\ display' = NoHand
                  /\ UNCHANGED <<transcriptList, transcriptSigns, game, analytics>>]_vars

C4_Witness ==
    /\ display = NoHand
    /\ transcriptSigns # {}
    /\ Entries(transcriptList) > 0

(* C5 (as claimed): on a page with both engines loaded, from the default
   stores and with detections as the only trigger, experience = 10 * commits
   and totalSigns = correctSigns = commits = entries appended =
   /save_detection calls, also when #transcriptList is unavailable *)
C5_CommitEffectsTogether ==
    (env.gamification /\ env.analytics /\ game # Corrupt /\ analytics # Corrupt) =>
       /\ XP = 10 * commits
       /\ TotalSigns = commits
       /\ CorrectSigns = commits
       /\ appended = commits
       /\ saveCalls = commits

(* C6 (as claimed): no tick fires while no timer is held, and a response that
   arrives while no timer is held changes neither the display, the transcript,
   transcriptSigns nor the stored records *)
C6_DiscardedWhenIdle ==
    [][/\ Tick => detectionInterval # 0
       /\ (Respond /\ detectionInterval = 0) =>
             UNCHANGED <<display, transcriptList, transcriptSigns, game, analytics>>]_vars

(* C7 (as claimed): a tick, a response and a mode switch in either direction
   leave every label of transcriptSigns in the set *)
C7_OnlyClearEmpties ==
    [][(Tick \/ Respond \/ SwitchMode) =>
          transcriptSigns \subseteq transcriptSigns']_vars

----------------------------------------------------------------------------
(* Properties of the progression engine with its timer (SpecSync) *)

(* C11: no increment of addXP is lost, whatever runs in between: every call
   addXP(amount) raises the persisted xp by exactly amount, and every other
   step (a sync tick, the settling of a push, updateStreak, a page load or
   unload, the passing of time) leaves the persisted xp as it was, so that
   the persisted xp is the initial xp plus the sum of the amounts *)
C11_NoLostIncrement ==
    [][/\ \A amount \in Amounts : AddXPOf(amount) => XP' = XP + amount
       /\ XP' = XP \/ AddXP]_vars

(* An addXP that ran while a push of an earlier sync tick was still pending *)
C11_Witness ==
    /\ pushesPending > 0
    /\ lastPush.xp + DetectionXP <= XP
    /\ game.kind = "json"
    /\ game.streak >= 1

----------------------------------------------------------------------------
(* Properties of the page in a degraded environment (SpecDegraded) *)

(* C12 (as claimed): a corrupted record is treated as absent and no operation
   raises: a page load with Gamification present runs updateStreak from the
   default record when the stored one is corrupted, persists the result and
   sets the sync timer, and a page load with Analytics present sets the
   practice-time timer *)
C12_CorruptTreatedAsAbsent ==
    [][PageLoad =>
         /\ env.gamification =>
               /\ game' = updateStreak(IF game = Corrupt THEN Absent ELSE game, now)
               /\ syncTimer'
         /\ env.analytics => flushTimer']_vars

----------------------------------------------------------------------------
(* Properties of the analytics engine (SpecAnalytics) *)

(* C13: from the default record, under trackSign(true), trackSign(false) and
   updatePracticeTime in any order, correctSigns never exceeds totalSigns;
   each trackSign(isCorrect) raises totalSigns by exactly 1 and correctSigns
   by 1 when isCorrect and by 0 otherwise; updatePracticeTime changes
   neither *)
C13_CorrectWithinTotal ==
    [][/\ CorrectSigns' <= TotalSigns'
       /\ \A isCorrect \in BOOLEAN :
            TrackSignWithin(isCorrect, MaxSigns) =>
               /\ TotalSigns' = TotalSigns + 1
               /\ CorrectSigns' = CorrectSigns + (IF isCorrect THEN 1 ELSE 0)
       /\ UpdatePracticeTime => UNCHANGED <<TotalSigns, CorrectSigns>>]_vars

(* Correct and incorrect signs were tracked and practice time was flushed *)
C13_Witness ==
    /\ TotalSigns >= 3
    /\ CorrectSigns = 1
    /\ analytics.practiceTime > 0

RECURSIVE SumOver(_, _)
SumOver(f, S) ==
    IF S = {} THEN 0
    ELSE LET d == CHOOSE x \in S : TRUE IN f[d] + SumOver(f, S \ {d})

DailyCounts ==
    IF analytics.kind = "json" THEN analytics.dailyProgress ELSE [d \in Days |-> 0]

(* C14: the count of a day never decreases and is the number of trackSign
   calls made on that day, also across a change of day: a trackSign adds 1 to
   the count of the current day and leaves the other days alone, no other
   step changes any count, and the counts of all days add up to totalSigns *)
C14_DailyCountsExact ==
    [][/\ TrackSign =>
            \A d \in Days :
               DailyCounts'[d] = DailyCounts[d] + (IF d = Today THEN 1 ELSE 0)
       /\ DailyCounts' = DailyCounts \/ TrackSign
       /\ SumOver(DailyCounts', Days) = TotalSigns']_vars

(* Signs were tracked on two different days *)
C14_Witness ==
    /\ DailyCounts[Today] >= 1
    /\ DailyCounts[Today - 1] >= 2

----------------------------------------------------------------------------
(* Properties of getAccuracy (SpecAccuracy) *)

(* C15: getAccuracy returns 0 when totalSigns is 0 and otherwise the integer
   nearest to correctSigns / totalSigns * 100 (a half goes up), which lies in
   0 .. 100; after seven trackSign(true) and three trackSign(false) from the
   default record it returns 70 *)
C15_AccuracyPercent ==
    LET a == getAccuracy(analytics, now)
    IN  /\ a \in 0 .. 100
        /\ TotalSigns = 0 => a = 0
        /\ TotalSigns > 0 =>
              /\ 2 * a * TotalSigns <= 200 * CorrectSigns + TotalSigns
              /\ 200 * CorrectSigns + TotalSigns < 2 * (a + 1) * TotalSigns
        /\ (TotalSigns = 10 /\ CorrectSigns = 7) => a = 70

(* Seven correct signs out of ten *)
C15_Witness ==
    /\ TotalSigns = 10
    /\ CorrectSigns = 7
    /\ getAccuracy(analytics, now) = 70

----------------------------------------------------------------------------
(* Properties of getLast7Days (SpecAnalytics) *)

(* The record holds five signs, all of them tracked the day before *)
FiveSignsYesterday ==
    /\ analytics.kind = "json"
    /\ DailyCounts = [d \in Days |-> IF d = Today - 1 THEN 5 ELSE 0]

(* C16 (as claimed): the series asked for three days is returned with exactly
   three counts, oldest first; with five signs tracked the day before and none
   on any other day it is <<0, 5, 0>> *)
C16_LastThreeDays ==
    FiveSignsYesterday =>
       /\ Len(getLast7Days(analytics, now)) = 3
       /\ getLast7Days(analytics, now) = <<0, 5, 0>>

(* C16 (amended): getLast7Days returns exactly seven counts, oldest first, for
   the days Today - 6 .. Today, each the count stored for that day or 0 when
   none is stored; with five signs tracked the day before and none on any
   other day it is <<0, 0, 0, 0, 0, 5, 0>> *)
C16_LastSevenDays ==
    LET days == getLast7Days(analytics, now)
    IN  /\ Len(days) = 7
        /\ \A k \in 1 .. 7 :
              days[k] = IF Today - (7 - k) \in Days THEN DailyCounts[Today - (7 - k)]
                        ELSE 0
        /\ FiveSignsYesterday => days = <<0, 0, 0, 0, 0, 5, 0>>

C16_Witness ==
    /\ FiveSignsYesterday
    /\ TotalSigns = 5
    /\ getLast7Days(analytics, now)[6] = 5

----------------------------------------------------------------------------
(* Properties of getProgress (SpecEngine) *)

Level == IF game.kind = "json" THEN game.level ELSE 1
LevelsTried == 1 .. (getLevel(MaxXP) + 1)

(* C17 (as claimed): the progress that updateUI computes from the stored
   record on a loaded page is the fraction (xp - (level - 1) * 100) / 100, a
   value between 0 and 1; it is one half for 250 xp at level 3 *)
C17_ProgressFraction ==
    LET p == getProgress(XP, Level)
    IN  page = "loaded" =>
          /\ 0 <= p /\ p <= 1
          /\ 100 * p = XP - (Level - 1) * 100
          /\ (XP = 250 /\ Level = 3) => 2 * p = 1

(* C17 (amended): getProgress(xp, level) is the percentage
   (xp - (level - 1) * 100) / 100 * 100 clamped to 0 .. 100; with
   level = floor(xp / 100) + 1 it does not decrease as xp grows within a level,
   it is exactly 0 at every multiple of 100, and it is 50 for 250 xp at
   level 3, which is also what the stored record yields *)
C17_ProgressPercent ==
    /\ \A xp \in 0 .. MaxXP : \A level \in LevelsTried :
          LET raw == xp - (level - 1) * 100
              p == getProgress(xp, level)
          IN  /\ p \in 0 .. 100
              /\ raw < 0 => p = 0
              /\ raw \in 0 .. 100 => p = raw
              /\ raw > 100 => p = 100
    /\ \A xp \in 0 .. (MaxXP - 1) :
          getLevel(xp) = getLevel(xp + 1) =>
             getProgress(xp, getLevel(xp)) <= getProgress(xp + 1, getLevel(xp + 1))
    /\ \A xp \in 0 .. MaxXP :
          xp % 100 = 0 => getProgress(xp, getLevel(xp)) = 0
    /\ getProgress(250, 3) = 50
    /\ getProgress(XP, Level) = XP - (Level - 1) * 100

(* 250 xp were added to an empty record: level 3, half of the bar *)
C17_Witness ==
    /\ XP = 250
    /\ Level = 3
    /\ getProgress(XP, Level) = 50

----------------------------------------------------------------------------
(* Properties of the synchronisation timer (SpecSync) *)

Streak == IF game.kind = "json" THEN game.streak ELSE 0

(* C18: a sync tick issues exactly one POST, whose body is the xp, level and
   streak persisted at that moment; the settling of a POST, failed or not,
   issues no further POST, leaves the sync timer set for the next tick, and
   neither the tick nor the settling changes the stored records *)
C18_SyncPushesPersisted ==
    [][/\ SyncTick =>
            /\ pushCount' = pushCount + 1
            /\ lastPush' = [xp |-> XP, level |-> Level, streak |-> Streak]
            /\ UNCHANGED <<game, analytics>>
       /\ SyncSettled =>
            /\ UNCHANGED <<game, analytics, pushCount, lastPush>>
            /\ syncTimer /\ syncTimer']_vars

(* A push settled and a later tick pushed the record as it was by then *)
C18_Witness ==
    /\ pushCount >= 2
    /\ pushesPending = 1
    /\ XP >= DetectionXP
    /\ lastPush = [xp |-> XP, level |-> Level, streak |-> Streak]

----------------------------------------------------------------------------
(* Properties of the page and its requests (SpecNetwork) *)

(* C19: a query of /latest that is rejected ends that callback only: the
   transcript, transcriptSigns, the stored records and the display stay as
   they were, no query is issued in its place, and the timer stays set; the
   settling of a POST to /save_detection, failed or not, leaves the transcript,
   transcriptSigns, the stored records and the numbers of commits and of
   POSTs as they were *)
C19_FailuresAbandonOnly ==
    [][/\ RespondRejected =>
            /\ UNCHANGED <<transcriptList, transcriptSigns, game, analytics, display>>
            /\ UNCHANGED <<detectionInterval, activeTimers, logVars>>
            /\ inflight' = inflight - 1
       /\ SaveSettled =>
            /\ UNCHANGED <<transcriptList, transcriptSigns, game, analytics, display>>
            /\ UNCHANGED <<commits, appended, saveCalls, inflight>>]_vars

(* A commit whose POST has settled, a sign on display, the timer set and a
   query just answered *)
C19_Witness ==
    /\ page = "loaded"
    /\ detectionInterval # 0
    /\ display.active
    /\ Entries(transcriptList) >= 1
    /\ savesPending = 0
    /\ inflight = 0

----------------------------------------------------------------------------
(* Properties of clearTranscript (Spec) *)

(* C20: clearTranscript leaves the transcript without any entry and
   transcriptSigns empty, and changes neither the stored progression and
   analytics records nor whether the poller is idle or polling *)
C20_ClearFrame ==
    [][clearTranscript =>
          /\ Entries(transcriptList') = 0
          /\ transcriptSigns' = {}
          /\ UNCHANGED <<game, analytics>>
          /\ UNCHANGED <<detectionInterval, activeTimers, currentMode>>]_vars

(* The transcript was cleared after a commit made on this page, while polling *)
C20_Witness ==
    /\ savesPending >= 1
    /\ transcriptList = <<Placeholder>>
    /\ transcriptSigns = {}
    /\ detectionInterval # 0
    /\ XP >= DetectionXP

----------------------------------------------------------------------------
(* Properties of the transcript near its cap (SpecTranscript) *)

(* The entries of the list, without the placeholder paragraph *)
EntriesOf(children) ==
    IF \E i \in 1 .. Len(children) : children[i] = Placeholder THEN << >>
    ELSE children

(* C21: the transcript never holds more than 20 entries; a commit puts its
   entry in front of the entries already there, which keep their order, and
   when there were 20 already exactly the last (oldest) one is dropped; this
   also holds for the commits that follow a clearTranscript *)
C21_TranscriptCapped ==
    [][/\ Entries(transcriptList') <= 20
       /\ appended' = appended + 1 =>
            LET old == EntriesOf(transcriptList)
            IN  /\ transcriptList' # << >>
                /\ Head(transcriptList') # Placeholder
                /\ Tail(transcriptList') =
                      IF Len(old) = 20 THEN SubSeq(old, 1, 19) ELSE old]_vars

(* Twenty entries after at least two commits made from nineteen or twenty *)
C21_Witness ==
    /\ Len(transcriptList) = 20
    /\ Entries(transcriptList) = 20
    /\ appended >= 2

----------------------------------------------------------------------------
(* Properties of the practice time in the first session (SpecSession) *)

(* The seconds spent so far with the page loaded *)
SessionSeconds == (sessionTime * MsPerUnit) \div 1000

(* C22 (as claimed): updatePracticeTime sets sessionStart to the current
   instant and leaves totalSigns, correctSigns and dailyProgress as they were;
   starting without a stored record, and with no sign tracked in between,
   practiceTime after a flush is the number of seconds since the session
   started *)
C22_FlushAddsElapsed ==
    [][UpdatePracticeTime =>
          /\ analytics'.sessionStart = now
          /\ UNCHANGED <<TotalSigns, CorrectSigns, DailyCounts>>
          /\ TotalSigns = 0 => analytics'.practiceTime = SessionSeconds]_vars

----------------------------------------------------------------------------
(* Properties of the practice time across sessions (SpecAnalytics) *)

PracticeTime == IF analytics.kind = "json" THEN analytics.practiceTime ELSE 0

(* C27 (as claimed): across page loads, tracked signs, flushes, unloads and
   reloads, practiceTime never exceeds the time spent with the page loaded:
   the time between an unload and the next load is not added by a flush *)
C27_PracticeWithinSessions == PracticeTime <= SessionSeconds

----------------------------------------------------------------------------
(* Properties of overlapping queries (SpecTranscript) *)

(* What a reply puts on display *)
DisplayOf(data) ==
    IF data.sign # NoSign /\ data.hasConf /\ data.conf >= 750
    THEN [active |-> TRUE, signName |-> data.sign,
          confidence |-> (data.conf + 5) \div 10]
    ELSE [active |-> FALSE, signName |-> "No hand detected", confidence |-> 0]

(* C23: while a timer is set a tick can fire and issues one more query,
   whether or not earlier queries are outstanding; replies are handled as they
   complete, whichever tick issued them, and each reply that resolves leaves
   on display what that reply determines, so the display is the one of the
   reply that completed last *)
C23_LastCompletedWins ==
    [][/\ (detectionInterval # 0 /\ inflight < MaxInflight) => ENABLED Tick
       /\ Tick => inflight' = inflight + 1
       /\ \A data \in Samples :
            RespondWith(data) =>
               /\ display' = DisplayOf(data)
               /\ inflight' = inflight - 1]_vars

(* A sign on display while two queries are outstanding *)
C23_Witness ==
    /\ detectionInterval # 0
    /\ inflight >= 2
    /\ display.active

----------------------------------------------------------------------------
(* Properties of the two records of the shared store (SpecStore) *)

(* C24: addXP, updateStreak and the sync timer (its tick and the settling of
   its push) never change the analytics record, and trackSign and the flush
   timer never change the progression record, whatever the poll, flush and
   sync timers have done in between *)
C24_StoresIsolated ==
    [][/\ analytics' = analytics \/ ~(AddXP \/ UpdateStreak \/ SyncTick \/ SyncSettled)
       /\ game' = game \/ ~(TrackSign \/ UpdatePracticeTime)]_vars

(* Both records written, with a push made and a query outstanding *)
C24_Witness ==
    /\ XP > EarnedXP
    /\ TotalSigns >= 2
    /\ CorrectSigns < TotalSigns
    /\ pushCount >= 1
    /\ inflight >= 1

----------------------------------------------------------------------------
(* Properties of the poll timer (Spec) *)

(* C25: whatever modes were switched to, sign mode several times in a row
   included, at most one interval timer is set; the page is in sign mode
   exactly when detectionInterval holds a handle, the handle is the one of
   the timer that is set, and a switch to another mode leaves no timer set *)
C25_AtMostOneTimer ==
    /\ Cardinality(activeTimers) <= 1
    /\ detectionInterval # 0 <=> activeTimers # {}
    /\ detectionInterval # 0 => activeTimers = {detectionInterval}
    /\ page = "loaded" => (currentMode = "sign" <=> detectionInterval # 0)
    /\ page = "unloaded" => activeTimers = {}

(* Sign mode entered again after another mode, with entries committed before
   and a query outstanding *)
C25_Witness ==
    /\ page = "loaded"
    /\ learningMode = "sign"
    /\ detectionInterval # 0
    /\ inflight >= 1
    /\ transcriptList # << >>
    /\ transcriptList # <<Placeholder>>
    /\ transcriptSigns = {}

----------------------------------------------------------------------------
(* Properties of the frame of addXP (SpecEngine) *)

(* C26: addXP changes nothing of the stored record but xp and level: streak
   and lastVisit stay as they were, also when the call is made on a later day
   than lastVisit *)
C26_AddXPFrame ==
    [][AddXP =>
          /\ game.kind = "json"
          /\ game'.streak = game.streak
          /\ game'.lastVisit = game.lastVisit
          /\ game' = [game EXCEPT !.xp = game'.xp, !.level = game'.level]]_vars

(* The page stayed open past midnight and xp was added to the stored record *)
C26_Witness ==
    /\ page = "loaded"
    /\ game.kind = "json"
    /\ game.lastVisit < Today
    /\ XP \notin PersistedXP

----------------------------------------------------------------------------
(* Properties of the commit path under fairness (SpecLive) *)

(* C28: while the page stays in sign mode and the detector keeps reporting a
   label at 0.9 that is not in transcriptSigns, the label is eventually
   committed: it enters transcriptSigns, by a step that adds 10 xp; once it is
   in the set, no step but clearTranscript commits anything or removes it *)
C28_EventuallyCommitted ==
    /\ (Steady.sign \notin transcriptSigns /\ commits < MaxCommits)
          ~> (Steady.sign \in transcriptSigns)
    /\ [][/\ (Steady.sign \notin transcriptSigns /\ Steady.sign \in transcriptSigns')
               => (XP' = XP + 10 /\ commits' = commits + 1)
          /\ (Steady.sign \in transcriptSigns /\ ~clearTranscript)
               => (commits' = commits /\ XP' = XP
                   /\ Steady.sign \in transcriptSigns')]_vars

(* The label was committed, cleared and committed again *)
C28_Witness ==
    /\ detectionInterval # 0
    /\ Steady.sign \in transcriptSigns
    /\ commits = 2
    /\ XP = 20

====
